---------------------------- MODULE Spec2Model ----------------------------
(***************************************************************************)
(* Model of the tap-pattern decoder SoundTapDetector                       *)
(* (src/lib/tapDetector.py) and of the host loop that polls it.            *)
(*                                                                         *)
(* Time is the value of time.ticks_ms(): a counter that wraps at           *)
(* ticks_period; time.ticks_diff is the signed wrapped difference.         *)
(* The interrupt handler runs to completion.  In Spec and ScenarioSpec      *)
(* each polling entry point is one step; in ConcSpec the polling entry     *)
(* points run statement by statement and the handler can preempt them.     *)
(*                                                                         *)
(* The collaborators of the decoder are modelled next to it: the password  *)
(* generator SimpleTOTP (src/lib/simpleTotp.py), the clock driver DS3231   *)
(* (src/lib/ds3231.py) with the seven time registers of the chip, and the  *)
(* RotatingFileHandler of src/lib/logging.py with the files it manages.    *)
(***************************************************************************)
EXTENDS Integers, Sequences, FiniteSets, TLC

VARIABLES
    \* configuration, fixed by __init__ (tapDetector.py:30-36)
    debounce_time_ms,
    short_tap_max_delay_ms,
    long_tap_min_delay_ms,
    total_taps_to_expect,
    sequence_timeout_ms,
    \* decoder state (tapDetector.py:38-44)
    tap_detected_flag,
    last_tap_time,
    current_binary_sequence,
    last_sequence_tap_time,
    full_sequence_ready,
    current_tap_count,
    \* pin.irq registration (tapDetector.py:46, 211)
    irq_handler,
    \* platform clock: value of time.ticks_ms() and its period
    now,
    ticks_period,
    \* observation: the last call and what it returned
    last_op,
    \* history: the timestamp of the last pulse that passed debounce (-1:
    \* none yet), the number of pulses that passed debounce since the last
    \* reset_sequence, and the gaps between consecutive ones
    last_accepted,
    accepted,
    gaps,
    \* scenario driver: pulses of the scripted scenario delivered so far
    offered,
    \* host loop, statement by statement: the line it is about to run, the
    \* entry point that called reset_sequence, and check_for_timeout's local
    \* current_time
    pc,
    caller,
    poll_time,
    \* history of the current host call: the decoder fields when it started,
    \* the clock values at which the handler ran during it, and whether the
    \* last completed host call was is_sequence_complete returning True
    snap,
    irqs,
    complete_true,
    \* history of binary_sequence_to_integer: the argument and the result of
    \* a call made before the first accepted pulse
    decoded,
    \* SimpleTOTP fields (simpleTotp.py:23-28)
    secret_key,
    time_step_seconds,
    password,
    kode_ketuk,
    \* DS3231: the time registers 0x00-0x06 of the chip, and (history) the
    \* arguments of the last set_time
    i2c_mem,
    time_set,
    \* RotatingFileHandler fields (logging.py:108, 164, 187-188), the files
    \* of the directory by name (0: baseFilename, i: baseFilename.i), and
    \* (history) the number of records passed to emit
    maxBytes,
    backupCount,
    level,
    mode,
    files,
    emitted

config == <<debounce_time_ms, short_tap_max_delay_ms, long_tap_min_delay_ms,
            total_taps_to_expect, sequence_timeout_ms, ticks_period>>

sequence_state == <<current_binary_sequence, last_sequence_tap_time,
                    full_sequence_ready, current_tap_count>>

history == <<last_accepted, accepted, gaps>>

host == <<pc, caller, poll_time, snap, irqs, complete_true>>

decoder == <<tap_detected_flag, last_tap_time, current_binary_sequence,
             last_sequence_tap_time, full_sequence_ready, current_tap_count>>

totp == <<secret_key, time_step_seconds, password, kode_ketuk>>

rtc == <<i2c_mem, time_set>>

handler == <<maxBytes, backupCount, level, mode, files, emitted>>

peripherals == <<totp, rtc, handler>>

vars == <<debounce_time_ms, short_tap_max_delay_ms, long_tap_min_delay_ms,
          total_taps_to_expect, sequence_timeout_ms,
          tap_detected_flag, last_tap_time, current_binary_sequence,
          last_sequence_tap_time, full_sequence_ready, current_tap_count,
          irq_handler, now, ticks_period, last_op, last_accepted, accepted,
          gaps, offered, pc, caller, poll_time, snap, irqs, complete_true,
          decoded, secret_key, time_step_seconds, password, kode_ketuk,
          i2c_mem, time_set, maxBytes, backupCount, level, mode, files,
          emitted>>

---------------------------------------------------------------------------
\* Bounds of the model

\* largest total_taps_to_expect explored
MaxTaps == 3

\* how many pulses beyond total_taps_to_expect may be counted
MaxOver == 1

\* half of the (scaled) ticks period of the small configurations
HalfPeriod == 5

---------------------------------------------------------------------------
\* Platform: time.ticks_diff(a, b) on a counter of period p

TicksDiff(a, b, p) == ((a - b + p \div 2) % p) - p \div 2

\* Configurations explored by Spec: debounce d, short_tap_max s,
\* long_tap_min l, sequence_timeout T.  l is adjacent to s (the shape of the
\* defaults 500/501), below s (overlapping), equal to s, or leaves a gap.
SmallConfigs ==
    { [d |-> 1, s |-> 2, l |-> 3, T |-> 3],
      [d |-> 1, s |-> 3, l |-> 2, T |-> 3],
      [d |-> 1, s |-> 2, l |-> 4, T |-> 3],
      [d |-> 2, s |-> 3, l |-> 3, T |-> 3] }

Ticks == 0 .. (ticks_period - 1)

---------------------------------------------------------------------------
\* Results of calls

BoolResult(name, b) == [op |-> name, val |-> b]

NoneValue == [none |-> TRUE, v |-> 0]

IntValue(n) == [none |-> FALSE, v |-> n]

---------------------------------------------------------------------------
\* binary_sequence_to_integer (pure part)

AllValidChars(binary_str) ==
    \A i \in 1 .. Len(binary_str) : binary_str[i] \in {".", "-"}

\* binary_str.replace('.', '0').replace('-', '1')
StandardBinaryStr(binary_str) ==
    [i \in 1 .. Len(binary_str) |->
        IF binary_str[i] = "." THEN "0"
        ELSE IF binary_str[i] = "-" THEN "1"
        ELSE binary_str[i]]

\* variant: the first digit is the least significant
RECURSIVE IntBase2LittleEndian(_)
IntBase2LittleEndian(s) ==
    IF Len(s) = 0 THEN 0
    ELSE 2 * IntBase2LittleEndian(SubSeq(s, 2, Len(s)))
         + (IF s[1] = "1" THEN 1 ELSE 0)

\* int(s, 2) for a non-empty string of '0' and '1'
RECURSIVE IntBase2(_)
IntBase2(s) ==
    IF Len(s) = 0 THEN 0
    ELSE 2 * IntBase2(SubSeq(s, 1, Len(s) - 1))
         + (IF s[Len(s)] = "1" THEN 1 ELSE 0)

\* variant: the length of the string is not tested
BinarySequenceToIntegerAnyLength(binary_str, n) ==
    IF ~AllValidChars(binary_str) THEN NoneValue
    ELSE IF Len(binary_str) = 0 THEN NoneValue
    ELSE IntValue(IntBase2(StandardBinaryStr(binary_str)))

\* lines 178-195: None for a character other than '.' and '-', for a length
\* other than n-1, and for the empty string (int('', 2) raises ValueError)
BinarySequenceToInteger(binary_str, n) ==
    IF ~AllValidChars(binary_str) THEN NoneValue
    ELSE IF Len(StandardBinaryStr(binary_str)) # n - 1 THEN NoneValue
    ELSE IF Len(binary_str) = 0 THEN NoneValue
    ELSE IntValue(IntBase2(StandardBinaryStr(binary_str)))

\* the value of decoded before the first call
NoDecode == [none |-> TRUE, arg |-> <<>>, val |-> NoneValue]

---------------------------------------------------------------------------
\* _handle_tap_interrupt

\* variant: the debounce interval is left out of the test
PassesDebounceNoWindow(current_time) ==
    TicksDiff(current_time, last_tap_time, ticks_period) > 0

\* the debounce test of line 63
PassesDebounce(current_time) ==
    TicksDiff(current_time, last_tap_time, ticks_period) > debounce_time_ms

\* variant: the short threshold is exclusive
ClassifyGapStrict(time_diff) ==
    IF time_diff < short_tap_max_delay_ms THEN "." ELSE "-"

\* variant: the long threshold decides (the test commented out at line 93)
ClassifyGapByLongMin(time_diff) ==
    IF time_diff >= long_tap_min_delay_ms THEN "-" ELSE "."

\* the short/long test of lines 90-96 and 107-115
ClassifyGap(time_diff) ==
    IF time_diff <= short_tap_max_delay_ms THEN "." ELSE "-"

\* the state reset_sequence leaves (lines 201-204)
ResetState ==
    [seq |-> <<>>, lstt |-> 0, ready |-> FALSE, count |-> 0]

CurrentState ==
    [seq |-> current_binary_sequence, lstt |-> last_sequence_tap_time,
     ready |-> full_sequence_ready, count |-> current_tap_count]

\* variant: no reset before counting a pulse that follows a complete sequence
NoImplicitReset == CurrentState

\* lines 69-71: a pulse after a complete sequence resets first
AfterImplicitReset ==
    IF full_sequence_ready THEN ResetState ELSE CurrentState

\* variant: the final pulse sets the completion flag without appending its bit
CountAndClassifyNoFinalBit(st, current_time) ==
    LET count1 == st.count + 1
        time_diff == TicksDiff(current_time, st.lstt, ticks_period)
    IN  IF count1 <= total_taps_to_expect /\ count1 # 1
        THEN IF count1 < total_taps_to_expect
             THEN [st EXCEPT !.count = count1,
                             !.seq = Append(st.seq, ClassifyGap(time_diff))]
             ELSE [st EXCEPT !.count = count1, !.ready = TRUE]
        ELSE [st EXCEPT !.count = count1]

\* lines 78-115 applied to the state st at time current_time
CountAndClassify(st, current_time) ==
    LET count1 == st.count + 1
        time_diff == TicksDiff(current_time, st.lstt, ticks_period)
    IN  IF count1 <= total_taps_to_expect /\ count1 # 1
        THEN IF count1 < total_taps_to_expect
             THEN [st EXCEPT !.count = count1,
                             !.seq = Append(st.seq, ClassifyGap(time_diff))]
             ELSE [st EXCEPT !.count = count1,
                             !.seq = Append(st.seq, ClassifyGap(time_diff)),
                             !.ready = TRUE]
        ELSE [st EXCEPT !.count = count1]

\* The handler at ticks_ms() = current_time.  The outcome recorded in last_op
\* is "rejected" (debounce), "restarted" (the message of line 70 was printed)
\* or "accepted".
HandleTapInterruptAt(current_time) ==
    IF PassesDebounce(current_time)
    THEN LET st == CountAndClassify(AfterImplicitReset, current_time)
             wasReset == full_sequence_ready
             gap == TicksDiff(current_time, last_accepted, ticks_period)
         IN  /\ \/ full_sequence_ready
                \/ /\ current_tap_count < total_taps_to_expect + MaxOver
                   /\ accepted < total_taps_to_expect + MaxOver
             /\ tap_detected_flag' = TRUE
             /\ current_binary_sequence' = st.seq
             /\ full_sequence_ready' = st.ready
             /\ current_tap_count' = st.count
             /\ last_sequence_tap_time' = current_time
             /\ last_tap_time' = current_time
             /\ last_op' = [op |-> "irq",
                            val |-> IF wasReset THEN "restarted"
                                    ELSE "accepted"]
             /\ last_accepted' = current_time
             /\ accepted' = IF wasReset THEN 1 ELSE accepted + 1
             /\ gaps' = IF wasReset \/ accepted = 0 THEN <<>>
                        ELSE IF accepted < total_taps_to_expect
                        THEN Append(gaps, gap) ELSE gaps
    ELSE /\ UNCHANGED decoder
         /\ last_op' = [op |-> "irq", val |-> "rejected"]
         /\ UNCHANGED history

HandleTapInterrupt ==
    /\ irq_handler
    /\ HandleTapInterruptAt(now)
    /\ UNCHANGED <<config, peripherals, decoded, irq_handler, now, offered,
                   host>>

---------------------------------------------------------------------------
\* reset_sequence (lines 197-205)

\* variant: the completion flag is left as it is
ResetSequenceFieldsKeepsReady ==
    /\ current_binary_sequence' = ResetState.seq
    /\ last_sequence_tap_time' = ResetState.lstt
    /\ current_tap_count' = ResetState.count
    /\ accepted' = 0
    /\ gaps' = <<>>
    /\ UNCHANGED <<full_sequence_ready, last_accepted>>

ResetSequenceFields ==
    /\ current_binary_sequence' = ResetState.seq
    /\ last_sequence_tap_time' = ResetState.lstt
    /\ full_sequence_ready' = ResetState.ready
    /\ current_tap_count' = ResetState.count
    /\ accepted' = 0
    /\ gaps' = <<>>
    /\ UNCHANGED last_accepted

ResetSequence ==
    /\ ResetSequenceFields
    /\ last_op' = [op |-> "reset_sequence", val |-> TRUE]
    /\ UNCHANGED <<config, peripherals,
                   decoded, tap_detected_flag, last_tap_time, irq_handler,
                   now, offered,
                   host>>

---------------------------------------------------------------------------
\* is_tap_detected (lines 120-128)

\* variant: the flag is reported without being cleared
IsTapDetectedKeepsFlag ==
    /\ last_op' = BoolResult("is_tap_detected", tap_detected_flag)
    /\ UNCHANGED <<config, peripherals,
                   decoded, decoder, irq_handler, now, history,
                   offered, host>>

IsTapDetected ==
    /\ tap_detected_flag' = FALSE
    /\ last_op' = BoolResult("is_tap_detected", tap_detected_flag)
    /\ UNCHANGED <<config, peripherals,
                   decoded, last_tap_time, sequence_state, irq_handler, now,
                   history, offered,
                   host>>

---------------------------------------------------------------------------
\* check_for_timeout (lines 130-142)

\* variant: the timeout fires at exactly sequence_timeout_ms
IdleAtLeast(current_time) ==
    TicksDiff(current_time, last_sequence_tap_time, ticks_period)
        >= sequence_timeout_ms

\* the idle test of line 138
IdleTooLong(current_time) ==
    TicksDiff(current_time, last_sequence_tap_time, ticks_period)
        > sequence_timeout_ms

\* variant: a sequence of a single pulse is not timed out
TimeoutDueAfterSecondPulse(current_time) ==
    /\ current_tap_count > 1
    /\ ~full_sequence_ready
    /\ IdleTooLong(current_time)

\* the guard of lines 137-138
TimeoutDue(current_time) ==
    /\ current_tap_count > 0
    /\ ~full_sequence_ready
    /\ IdleTooLong(current_time)

CheckForTimeout ==
    /\ IF TimeoutDue(now)
       THEN /\ ResetSequenceFields
            /\ last_op' = BoolResult("check_for_timeout", TRUE)
       ELSE /\ UNCHANGED <<sequence_state, history>>
            /\ last_op' = BoolResult("check_for_timeout", FALSE)
    /\ UNCHANGED <<config, peripherals,
                   decoded, tap_detected_flag, last_tap_time, irq_handler,
                   now, offered,
                   host>>

---------------------------------------------------------------------------
\* is_sequence_complete (lines 144-159)

\* variant: the expected length counts the pulses, not the gaps
HasExpectedLengthOfPulses ==
    Len(current_binary_sequence) = total_taps_to_expect

\* variant: a code shorter than expected passes the length test
HasAtMostExpectedLength ==
    Len(current_binary_sequence) <= total_taps_to_expect - 1

\* the length test of line 151
HasExpectedLength ==
    Len(current_binary_sequence) = total_taps_to_expect - 1

\* variant: a complete sequence is reported without clearing the flag
IsSequenceCompleteKeepsFlag ==
    /\ IF full_sequence_ready
       THEN IF HasExpectedLength
            THEN /\ UNCHANGED <<sequence_state, history>>
                 /\ last_op' = BoolResult("is_sequence_complete", TRUE)
            ELSE /\ ResetSequenceFields
                 /\ last_op' = BoolResult("is_sequence_complete", FALSE)
       ELSE /\ UNCHANGED <<sequence_state, history>>
            /\ last_op' = BoolResult("is_sequence_complete", FALSE)
    /\ UNCHANGED <<config, peripherals,
                   decoded, tap_detected_flag, last_tap_time, irq_handler,
                   now, offered,
                   host>>

IsSequenceComplete ==
    /\ IF full_sequence_ready
       THEN IF HasExpectedLength
            THEN /\ full_sequence_ready' = FALSE
                 /\ UNCHANGED <<current_binary_sequence,
                                last_sequence_tap_time, current_tap_count,
                                history>>
                 /\ last_op' = BoolResult("is_sequence_complete", TRUE)
            ELSE /\ ResetSequenceFields
                 /\ last_op' = BoolResult("is_sequence_complete", FALSE)
       ELSE /\ UNCHANGED <<sequence_state, history>>
            /\ last_op' = BoolResult("is_sequence_complete", FALSE)
    /\ UNCHANGED <<config, peripherals,
                   decoded, tap_detected_flag, last_tap_time, irq_handler,
                   now, offered,
                   host>>

---------------------------------------------------------------------------
\* get_binary_sequence (lines 161-165)

\* variant: reading the code empties it
GetBinarySequenceDraining ==
    /\ last_op' = [op |-> "get_binary_sequence",
                   val |-> current_binary_sequence]
    /\ current_binary_sequence' = <<>>
    /\ UNCHANGED <<config, peripherals,
                   decoded, tap_detected_flag, last_tap_time,
                   last_sequence_tap_time, full_sequence_ready,
                   current_tap_count, irq_handler, now, history, offered,
                   host>>

GetBinarySequence ==
    /\ last_op' = [op |-> "get_binary_sequence",
                   val |-> current_binary_sequence]
    /\ UNCHANGED <<config, peripherals,
                   decoded, decoder, irq_handler, now, history, offered,
                   host>>

---------------------------------------------------------------------------
\* binary_sequence_to_integer() with binary_str=None (lines 175-176)

BinarySequenceToIntegerOfCurrent ==
    /\ last_op' = [op |-> "binary_sequence_to_integer",
                   val |-> BinarySequenceToInteger(current_binary_sequence,
                                                   total_taps_to_expect)]
    /\ UNCHANGED <<config, peripherals,
                   decoded, decoder, irq_handler, now, history, offered,
                   host>>

---------------------------------------------------------------------------
\* deactivate (lines 207-212)

Deactivate ==
    /\ irq_handler
    /\ irq_handler' = FALSE
    /\ last_op' = [op |-> "deactivate", val |-> TRUE]
    /\ UNCHANGED <<config, peripherals,
                   decoded, decoder, now, history, offered,
                   host>>

---------------------------------------------------------------------------
\* The clock: time.ticks_ms() advances by one and wraps at ticks_period

Tick ==
    /\ now' = (now + 1) % ticks_period
    /\ last_op' = [op |-> "tick", val |-> TRUE]
    /\ UNCHANGED <<config, peripherals,
                   decoded, decoder, irq_handler, history, offered,
                   host>>

---------------------------------------------------------------------------
\* SimpleTOTP (src/lib/simpleTotp.py): the password generator

\* largest value of the clock explored, in seconds since the epoch
MaxUnixTime == 130

\* largest argument of integer_to_custom_binary_string explored
MaxValue == 65

\* the operator ^ on two non-negative integers
RECURSIVE BitXor(_, _)
BitXor(a, b) ==
    IF a = 0 /\ b = 0
    THEN 0
    ELSE (((a % 2) + (b % 2)) % 2) + 2 * BitXor(a \div 2, b \div 2)

\* bin(value)[2:] for value >= 0: the binary digits, most significant first
RECURSIVE Bin(_)
Bin(value) ==
    IF value < 2
    THEN <<IF value = 1 THEN "1" ELSE "0">>
    ELSE Append(Bin(value \div 2), IF value % 2 = 1 THEN "1" ELSE "0")

\* '0' * n, the empty string when n <= 0
Zeros(n) == [i \in 1 .. n |-> "0"]

\* line 69: zeros in front up to 6 digits
Padded(value) == Zeros(6 - Len(Bin(value))) \o Bin(value)

\* lines 72-77: '.' for '0' and '-' for '1', any other character dropped
RECURSIVE CustomSymbols(_)
CustomSymbols(s) ==
    IF s = <<>>
    THEN <<>>
    ELSE (IF Head(s) = "0" THEN <<".">>
          ELSE IF Head(s) = "1" THEN <<"-">>
          ELSE <<>>) \o CustomSymbols(Tail(s))

\* lines 65-80 for a value that passed line 61: the symbols of the six
\* binary digits followed by the '.' that line 78 appends
CustomBinaryString(value) == Append(CustomSymbols(Padded(value)), ".")

\* line 61
InRange(value) == 0 <= value /\ value <= 63

\* variant of line 39: the counter is the clock itself
TimeCounterOfSeconds(current_unix_time) == current_unix_time

\* line 39
TimeCounter(current_unix_time) == current_unix_time \div time_step_seconds

\* line 45, max_password_value + 1 = 64 (line 26)
PasswordOf(time_counter) == BitXor(time_counter, secret_key) % (63 + 1)

\* get_unix_time of the clock object: seconds since the epoch, not negative
GetUnixTime == 0 .. MaxUnixTime

\* generate_password (lines 35-46) when the clock returns current_unix_time;
\* line 46 raises what integer_to_custom_binary_string raises, after
\* password has been set
GeneratePassword ==
    \E current_unix_time \in GetUnixTime :
        LET time_counter == TimeCounter(current_unix_time)
            p == PasswordOf(time_counter)
        IN  /\ password' = p
            /\ kode_ketuk' = IF InRange(p)
                             THEN CustomBinaryString(p)
                             ELSE kode_ketuk
            /\ last_op' = [op |-> "generate_password",
                           arg |-> current_unix_time,
                           val |-> p,
                           raised |-> ~InRange(p)]
            /\ UNCHANGED <<config, decoded, decoder, irq_handler, now,
                           history, offered, host, secret_key,
                           time_step_seconds, rtc, handler>>

\* integer_to_custom_binary_string(value) (lines 61-80)
IntegerToCustomBinaryString ==
    \E value \in -1 .. MaxValue :
        /\ last_op' = IF InRange(value)
                      THEN [op |-> "integer_to_custom_binary_string",
                            arg |-> value,
                            val |-> CustomBinaryString(value),
                            raised |-> FALSE]
                      ELSE [op |-> "integer_to_custom_binary_string",
                            arg |-> value,
                            val |-> <<>>,
                            raised |-> TRUE]
        /\ UNCHANGED <<config, peripherals, decoded, decoder, irq_handler,
                       now, history, offered, host>>

\* binary_sequence_to_integer (tapDetector.py:175-195) called with the
\* string that integer_to_custom_binary_string just returned for value
BinarySequenceToIntegerOfCustom ==
    /\ last_op.op = "integer_to_custom_binary_string"
    /\ ~last_op.raised
    /\ last_op' = [op |-> "binary_sequence_to_integer",
                   arg |-> last_op.val,
                   val |-> BinarySequenceToInteger(last_op.val,
                                                   total_taps_to_expect),
                   raised |-> FALSE,
                   value |-> last_op.arg]
    /\ UNCHANGED <<config, peripherals, decoded, decoder, irq_handler,
                   now, history, offered, host>>

\* the fields as __init__ sets them (lines 23-28)
InitTotp(key, step) ==
    /\ secret_key = key
    /\ time_step_seconds = step
    /\ password = 0
    /\ kode_ketuk = <<".", ".", ".", ".", ".", ".">>

\* secret keys explored, within 0 .. 2^32 - 1 (line 18): the smallest, keys
\* below and above 64, the key of the example (line 105) and the largest
\* key that TLC's integers hold
SecretKeys == {0, 5, 63, 64, 100, 123456789, 2147483647}

\* time steps explored, positive (line 20); 60 is the default
TimeSteps == {1, 7, 60}

---------------------------------------------------------------------------
\* DS3231 (src/lib/ds3231.py): the clock driver and the time registers

\* largest year written by set_time in the model
LastYear == 2100

\* largest argument of _dec2bcd explored
MaxDec == 99

\* line 18
Bcd2Dec(bcd) == ((bcd \div 16) * 10) + (bcd % 16)

\* line 21
Dec2Bcd(dec) == ((dec \div 10) * 16) + (dec % 16)

\* x & m for a mask m = 2^k - 1, given as 2^k
LowBits(x, twoToK) == x % twoToK

\* x & b # 0 for a single bit b = 2^k
BitSet(x, b) == (x \div b) % 2 = 1

\* x | b for a single bit b = 2^k
WithBit(x, b) == IF BitSet(x, b) THEN x ELSE x + b

\* lines 83-86: the weekday as set_time stores it
DsDayOfWeek(day_of_week) ==
    IF day_of_week = 6 THEN 1 ELSE day_of_week + 2

\* lines 52-54: the weekday as get_time returns it
DayOfWeekRead(buf3) ==
    LET day_of_week == Bcd2Dec(LowBits(buf3, 8)) - 1
    IN  IF day_of_week = -1 THEN 6 ELSE day_of_week

\* lines 39-50: the hour in 12-hour or 24-hour format
HourRead(hour_byte) ==
    IF BitSet(hour_byte, 64)
    THEN LET hour == Bcd2Dec(LowBits(hour_byte, 32))
         IN  IF BitSet(hour_byte, 128)
             THEN (IF hour # 12 THEN hour + 12 ELSE hour)
             ELSE (IF hour = 12 THEN 0 ELSE hour)
    ELSE Bcd2Dec(LowBits(hour_byte, 64))

\* lines 88-104: the seven bytes that set_time writes
TimeBytes(t) ==
    LET century_bit == t.year >= 2100
        year_to_set == IF century_bit THEN t.year - 100 ELSE t.year
    IN  [i \in 0 .. 6 |->
            CASE i = 0 -> Dec2Bcd(t.second)
              [] i = 1 -> Dec2Bcd(t.minute)
              [] i = 2 -> Dec2Bcd(t.hour)
              [] i = 3 -> Dec2Bcd(DsDayOfWeek(t.day_of_week))
              [] i = 4 -> Dec2Bcd(t.date)
              [] i = 5 -> IF century_bit
                          THEN WithBit(Dec2Bcd(t.month), 128)
                          ELSE Dec2Bcd(t.month)
              [] i = 6 -> Dec2Bcd(year_to_set % 100)]

\* lines 33-72: the tuple that get_time returns for the registers buf
TimeRead(buf) ==
    [year |-> 2000 + Bcd2Dec(buf[6])
                  + (IF BitSet(buf[5], 128) THEN 100 ELSE 0),
     month |-> Bcd2Dec(LowBits(buf[5], 32)),
     date |-> Bcd2Dec(LowBits(buf[4], 64)),
     hour |-> HourRead(buf[2]),
     minute |-> Bcd2Dec(LowBits(buf[1], 128)),
     second |-> Bcd2Dec(LowBits(buf[0], 128)),
     day_of_week |-> DayOfWeekRead(buf[3])]

\* the times written in the model: every weekday, the first and the last
\* second of a minute, and years up to the one that sets the century bit
DateTimes ==
    [year : {2000, 2025, LastYear - 1, LastYear}, month : {7}, date : {20},
     hour : {11}, minute : {26}, second : {0, 59}, day_of_week : 0 .. 6]

\* no set_time yet
NoTime == [year |-> 0, month |-> 0, date |-> 0, hour |-> 0, minute |-> 0,
           second |-> 0, day_of_week |-> -1]

\* set_time (lines 83-106)
SetTime ==
    \E t \in DateTimes :
        /\ i2c_mem' = TimeBytes(t)
        /\ time_set' = t
        /\ last_op' = [op |-> "set_time", arg |-> t, val |-> TRUE]
        /\ UNCHANGED <<config, totp, handler, decoded, decoder, irq_handler,
                       now, history, offered, host>>

\* get_time (lines 33-72)
GetTime ==
    /\ last_op' = [op |-> "get_time", val |-> TimeRead(i2c_mem)]
    /\ UNCHANGED <<config, peripherals, decoded, decoder, irq_handler,
                   now, history, offered, host>>

\* _dec2bcd(dec) (line 21)
Dec2BcdOf ==
    \E dec \in 0 .. MaxDec :
        /\ last_op' = [op |-> "_dec2bcd", arg |-> dec, val |-> Dec2Bcd(dec)]
        /\ UNCHANGED <<config, peripherals, decoded, decoder, irq_handler,
                       now, history, offered, host>>

\* _bcd2dec (line 18) called with the value that _dec2bcd just returned
\* for dec
Bcd2DecOf ==
    /\ last_op.op = "_dec2bcd"
    /\ last_op' = [op |-> "_bcd2dec", arg |-> last_op.val,
                   val |-> Bcd2Dec(last_op.val), dec |-> last_op.arg]
    /\ UNCHANGED <<config, peripherals, decoded, decoder, irq_handler,
                   now, history, offered, host>>

\* the registers of a chip that was never set (00:00:00, day 1, 01/01/00)
\* and no set_time yet
InitRtc ==
    /\ i2c_mem = [i \in 0 .. 6 |-> IF i \in {3, 4, 5} THEN 1 ELSE 0]
    /\ time_set = NoTime

---------------------------------------------------------------------------
\* RotatingFileHandler (src/lib/logging.py) and the files of its directory.
\* A file is the sequence of the records written to it; a record carries its
\* number, its level and the number of bytes of its formatted line.  File
\* operations succeed (the except branch of lines 251-254 is not taken).

\* largest maxBytes explored
LargestMaxBytes == 3

\* largest backupCount explored
MaxBackups == 2

\* number of records passed to emit
MaxEmits == 4

\* levels (lines 11-16)
ERROR == 40

WARNING == 30

INFO == 20

NOTSET == 0

\* os.listdir(): the names of the files that exist
Listdir(fs) == DOMAIN fs

\* os.remove(name)
Remove(fs, name) == [n \in DOMAIN fs \ {name} |-> fs[n]]

\* os.rename(sfn, dfn), dfn not existing
Rename(fs, sfn, dfn) ==
    [n \in (DOMAIN fs \ {sfn}) \cup {dfn} |->
        IF n = dfn THEN fs[sfn] ELSE fs[n]]

\* open(name, mode): "w" creates or truncates, "a" creates a missing file
Open(fs, name, m) ==
    IF m = "w" \/ name \notin DOMAIN fs
    THEN [n \in DOMAIN fs \cup {name} |-> IF n = name THEN <<>> ELSE fs[n]]
    ELSE fs

\* os.stat(name)[6] of a file with this content
RECURSIVE FileSize(_)
FileSize(content) ==
    IF content = <<>>
    THEN 0
    ELSE Head(content).size + FileSize(Tail(content))

\* StreamHandler.emit (lines 153-154): the record is written when its level
\* is at least the handler's
StreamEmit(fs, record) ==
    IF record.levelno >= level
    THEN [fs EXCEPT ![0] = Append(@, record)]
    ELSE fs

\* lines 204-209, and 213-218 with sfn = baseFilename: sfn, when it exists,
\* replaces dfn
MoveOver(fs, sfn, dfn) ==
    IF sfn \in Listdir(fs)
    THEN Rename(IF dfn \in Listdir(fs) THEN Remove(fs, dfn) ELSE fs,
                sfn, dfn)
    ELSE fs

\* variant of line 201: the loop starts at backupCount
FirstShiftedIsLast == backupCount

\* line 201: the first i of range(backupCount - 1, 0, -1)
FirstShifted == backupCount - 1

\* lines 201-209 from i down to 1
RECURSIVE ShiftFrom(_, _)
ShiftFrom(fs, i) ==
    IF i < 1 THEN fs ELSE ShiftFrom(MoveOver(fs, i, i + 1), i - 1)

\* doRotate (lines 197-221)
DoRotate(fs) ==
    Open(IF backupCount > 0
         THEN MoveOver(ShiftFrom(fs, FirstShifted), 0, 1)
         ELSE fs,
         0, mode)

\* shouldRotate (lines 228-243)
ShouldRotate(fs) ==
    /\ maxBytes > 0
    /\ 0 \in Listdir(fs)
    /\ FileSize(fs[0]) >= maxBytes

\* levels and sizes of the records explored
RecordLevels == {INFO, ERROR}

RecordSizes == {1, 2}

\* emit (lines 247-250) of the next record
Emit ==
    /\ emitted < MaxEmits
    /\ \E levelno \in RecordLevels, size \in RecordSizes :
          LET record == [n |-> emitted + 1, levelno |-> levelno,
                         size |-> size]
              rotate == ShouldRotate(files)
          IN  /\ files' = StreamEmit(IF rotate THEN DoRotate(files)
                                     ELSE files, record)
              /\ last_op' = [op |-> "emit", arg |-> record, val |-> rotate]
    /\ emitted' = emitted + 1
    /\ UNCHANGED <<config, totp, rtc, maxBytes, backupCount, level, mode,
                   decoded, decoder, irq_handler, now, history, offered,
                   host>>

\* a record left in a file by an earlier run
Earlier(i) == [n |-> 0 - i, levelno |-> WARNING, size |-> 2]

\* the directory before the handler is constructed: no log file, or the
\* log file and the first j backups of an earlier run
EarlierFiles ==
    {<<>>} \cup {[n \in 0 .. j |-> <<Earlier(n)>>] : j \in 0 .. MaxBackups}

\* __init__ (lines 182-188, 160-165, 107-109): the file is opened in mode m
InitHandler(mb, k, lv, m, fs) ==
    /\ maxBytes = mb
    /\ backupCount = k
    /\ level = lv
    /\ mode = m
    /\ files = Open(fs, 0, m)
    /\ emitted = 0

\* the arguments with which __init__ does not raise (lines 182-184)
HandlerArguments ==
    {a \in [mb : 0 .. LargestMaxBytes, k : 0 .. MaxBackups,
            lv : {NOTSET, WARNING}, m : {"a", "w"}] :
        a.mb > 0 => a.k > 0}

\* the collaborators with the arguments of the examples and of the defaults
InitPeripherals ==
    /\ InitTotp(123456789, 60)
    /\ InitRtc
    /\ InitHandler(0, 0, NOTSET, "a", <<>>)

---------------------------------------------------------------------------
\* State after __init__ (lines 28-46)

\* the decoder fields as a record
Fields(flag, ltt, seq, lstt, ready, count) ==
    [flag |-> flag, ltt |-> ltt, seq |-> seq, lstt |-> lstt,
     ready |-> ready, count |-> count]

CurrentFields ==
    Fields(tap_detected_flag, last_tap_time, current_binary_sequence,
           last_sequence_tap_time, full_sequence_ready, current_tap_count)

\* the fields as __init__ sets them; also the value of snap outside a call
NoSnap == Fields(FALSE, 0, <<>>, 0, FALSE, 0)

InitDecoder ==
    /\ tap_detected_flag = FALSE
    /\ last_tap_time = 0
    /\ current_binary_sequence = <<>>
    /\ last_sequence_tap_time = 0
    /\ full_sequence_ready = FALSE
    /\ current_tap_count = 0
    /\ irq_handler = TRUE
    /\ last_op = [op |-> "init", val |-> TRUE]
    /\ last_accepted = -1
    /\ accepted = 0
    /\ gaps = <<>>
    /\ offered = 0
    /\ pc = "idle"
    /\ caller = "none"
    /\ poll_time = 0
    /\ snap = NoSnap
    /\ irqs = <<>>
    /\ complete_true = FALSE
    /\ decoded = NoDecode

\* A decoder constructed with one of the small configurations, at any value
\* of the clock
Init ==
    /\ \E c \in SmallConfigs :
          /\ debounce_time_ms = c.d
          /\ short_tap_max_delay_ms = c.s
          /\ long_tap_min_delay_ms = c.l
          /\ sequence_timeout_ms = c.T
    /\ total_taps_to_expect \in 2 .. MaxTaps
    /\ ticks_period = 2 * HalfPeriod
    /\ now \in Ticks
    /\ InitDecoder
    /\ InitPeripherals

\* The decoder driven by pulses, the timeout poll, the completion check, the
\* read of the code and explicit resets
Next ==
    \/ HandleTapInterrupt
    \/ CheckForTimeout
    \/ IsSequenceComplete
    \/ GetBinarySequence
    \/ ResetSequence
    \/ Tick

Spec == Init /\ [][Next]_vars

---------------------------------------------------------------------------
\* The scenario of the example program (lines 235-243): 7 taps expected,
\* short gap <= 300 ms, debounce 50 ms, timeout 2000 ms, on the ESP32 clock
\* of period 2^30, polled every 50 ms (line 272), with pulses at the times
\* ScenarioPulses.

ScenarioPulses == <<0, 100, 500, 600, 1300, 1400, 1500>>

ScenarioStep == 50

ScenarioEnd == ScenarioPulses[Len(ScenarioPulses)] + 2 * ScenarioStep

ScenarioInit ==
    /\ debounce_time_ms = 50
    /\ short_tap_max_delay_ms = 300
    /\ long_tap_min_delay_ms = 301
    /\ total_taps_to_expect = 7
    /\ sequence_timeout_ms = 2000
    /\ ticks_period = 2 ^ 30
    /\ now = 0
    /\ InitDecoder
    /\ InitPeripherals

PulsePending ==
    /\ offered < Len(ScenarioPulses)
    /\ ScenarioPulses[offered + 1] = now

ScenarioPulse ==
    /\ irq_handler
    /\ PulsePending
    /\ HandleTapInterruptAt(now)
    /\ offered' = offered + 1
    /\ UNCHANGED <<config, peripherals, decoded, irq_handler, now, host>>

ScenarioTick ==
    /\ ~PulsePending
    /\ now + ScenarioStep <= ScenarioEnd
    /\ now' = (now + ScenarioStep) % ticks_period
    /\ last_op' = [op |-> "tick", val |-> TRUE]
    /\ UNCHANGED <<config, peripherals,
                   decoded, decoder, irq_handler, history, offered,
                   host>>

ScenarioNext ==
    \/ ScenarioPulse
    \/ ScenarioTick
    \/ CheckForTimeout
    \/ IsSequenceComplete
    \/ GetBinarySequence
    \/ BinarySequenceToIntegerOfCurrent

ScenarioSpec == ScenarioInit /\ [][ScenarioNext]_vars

---------------------------------------------------------------------------
\* The host loop statement by statement.  The handler is registered with
\* pin.irq (line 46) and no method takes a lock or disables interrupts, so
\* the handler can run between any two statements of a method called by the
\* host loop.  The handler itself runs to completion.  pc names the line the
\* host loop runs next; "idle" is between two calls.

\* the number of pulses of ConcSpec's decoder
ConcTaps == 3

\* at most this many handler runs are recorded per host call
MaxIrqs == 2

\* the first statement of a host call: the history of the call starts
EnterCall(name) ==
    /\ pc = "idle"
    /\ caller' = name
    /\ snap' = CurrentFields
    /\ irqs' = <<>>
    /\ complete_true' = FALSE

\* a return to the host loop with a value
ReturnValue(name, value) ==
    /\ pc' = "idle"
    /\ last_op' = BoolResult(name, value)

\* line 201, reached from reset_sequence() called by the host loop (idle),
\* by check_for_timeout (line 140) or by is_sequence_complete (line 157)
Line201 ==
    /\ \/ /\ EnterCall("reset_sequence")
          /\ poll_time' = 0
       \/ /\ pc \in {"line140", "line157"}
          /\ UNCHANGED <<caller, poll_time, snap, irqs, complete_true>>
    /\ current_binary_sequence' = ResetState.seq
    /\ pc' = "line202"
    /\ UNCHANGED <<config, peripherals,
                   decoded, tap_detected_flag, last_tap_time,
                   last_sequence_tap_time, full_sequence_ready,
                   current_tap_count, irq_handler, now, last_op, history,
                   offered>>

Line202 ==
    /\ pc = "line202"
    /\ last_sequence_tap_time' = ResetState.lstt
    /\ pc' = "line203"
    /\ UNCHANGED <<config, peripherals,
                   decoded, tap_detected_flag, last_tap_time,
                   current_binary_sequence, full_sequence_ready,
                   current_tap_count, irq_handler, now, last_op, history,
                   offered, caller, poll_time, snap, irqs, complete_true>>

Line203 ==
    /\ pc = "line203"
    /\ full_sequence_ready' = ResetState.ready
    /\ pc' = "line204"
    /\ UNCHANGED <<config, peripherals,
                   decoded, tap_detected_flag, last_tap_time,
                   current_binary_sequence, last_sequence_tap_time,
                   current_tap_count, irq_handler, now, last_op, history,
                   offered, caller, poll_time, snap, irqs, complete_true>>

\* line 204 and the return of the caller: reset_sequence returns None,
\* check_for_timeout True (line 141), is_sequence_complete False (line 158)
Line204 ==
    /\ pc = "line204"
    /\ current_tap_count' = ResetState.count
    /\ ReturnValue(caller, caller # "is_sequence_complete")
    /\ UNCHANGED <<config, peripherals,
                   decoded, tap_detected_flag, last_tap_time,
                   current_binary_sequence, last_sequence_tap_time,
                   full_sequence_ready, irq_handler, now, history, offered,
                   caller, poll_time, snap, irqs, complete_true>>

\* check_for_timeout, line 135: current_time = time.ticks_ms()
Line135 ==
    /\ EnterCall("check_for_timeout")
    /\ poll_time' = now
    /\ pc' = "line137"
    /\ UNCHANGED <<config, peripherals,
                   decoded, decoder, irq_handler, now, last_op, history,
                   offered>>

\* line 137: pulses counted and the sequence not complete; else line 142
Line137 ==
    /\ pc = "line137"
    /\ IF current_tap_count > 0 /\ ~full_sequence_ready
       THEN /\ pc' = "line138"
            /\ UNCHANGED last_op
       ELSE ReturnValue("check_for_timeout", FALSE)
    /\ UNCHANGED <<config, peripherals,
                   decoded, decoder, irq_handler, now, history, offered,
                   caller, poll_time, snap, irqs, complete_true>>

\* line 138: the idle test on the time read at line 135; else line 142
Line138 ==
    /\ pc = "line138"
    /\ IF IdleTooLong(poll_time)
       THEN /\ pc' = "line140"
            /\ UNCHANGED last_op
       ELSE ReturnValue("check_for_timeout", FALSE)
    /\ UNCHANGED <<config, peripherals,
                   decoded, decoder, irq_handler, now, history, offered,
                   caller, poll_time, snap, irqs, complete_true>>

\* is_sequence_complete, line 149: the flag; else line 159
Line149 ==
    /\ EnterCall("is_sequence_complete")
    /\ poll_time' = 0
    /\ IF full_sequence_ready
       THEN /\ pc' = "line151"
            /\ UNCHANGED last_op
       ELSE ReturnValue("is_sequence_complete", FALSE)
    /\ UNCHANGED <<config, peripherals,
                   decoded, decoder, irq_handler, now, history, offered>>

\* line 151: the length of the code
Line151 ==
    /\ pc = "line151"
    /\ pc' = IF HasExpectedLength THEN "line152" ELSE "line157"
    /\ UNCHANGED <<config, peripherals,
                   decoded, decoder, irq_handler, now, last_op, history,
                   offered, caller, poll_time, snap, irqs, complete_true>>

\* lines 152-153: clear the flag and return True
Line152 ==
    /\ pc = "line152"
    /\ full_sequence_ready' = FALSE
    /\ ReturnValue("is_sequence_complete", TRUE)
    /\ complete_true' = TRUE
    /\ UNCHANGED <<config, peripherals,
                   decoded, tap_detected_flag, last_tap_time,
                   current_binary_sequence, last_sequence_tap_time,
                   current_tap_count, irq_handler, now, history, offered,
                   caller, poll_time, snap, irqs>>

\* get_binary_sequence, line 165, called by the host loop
Line165 ==
    /\ pc = "idle"
    /\ last_op' = [op |-> "get_binary_sequence",
                   val |-> current_binary_sequence,
                   after_complete |-> complete_true]
    /\ caller' = "get_binary_sequence"
    /\ poll_time' = 0
    /\ snap' = NoSnap
    /\ irqs' = <<>>
    /\ complete_true' = FALSE
    /\ UNCHANGED <<config, peripherals,
                   decoded, decoder, irq_handler, now, history, offered, pc>>

\* the handler (lines 61-118) at ticks_ms() = now, between two statements of
\* the host loop or between two calls
Preempt ==
    /\ irq_handler
    /\ IF PassesDebounce(now)
       THEN LET st == CountAndClassify(AfterImplicitReset, now)
            IN  /\ \/ full_sequence_ready
                   \/ current_tap_count < total_taps_to_expect + MaxOver
                /\ tap_detected_flag' = TRUE
                /\ current_binary_sequence' = st.seq
                /\ full_sequence_ready' = st.ready
                /\ current_tap_count' = st.count
                /\ last_sequence_tap_time' = now
                /\ last_tap_time' = now
                /\ last_op' = [op |-> "irq",
                               val |-> IF full_sequence_ready
                                       THEN "restarted" ELSE "accepted"]
       ELSE /\ UNCHANGED decoder
            /\ last_op' = [op |-> "irq", val |-> "rejected"]
    /\ IF pc = "idle"
       THEN /\ snap' = NoSnap
            /\ irqs' = <<>>
            /\ poll_time' = 0
       ELSE /\ irqs' = IF Len(irqs) < MaxIrqs THEN Append(irqs, now) ELSE irqs
            /\ UNCHANGED <<snap, poll_time>>
    /\ UNCHANGED <<config, peripherals,
                   decoded, irq_handler, now, history, offered, pc, caller,
                   complete_true>>

\* the clock between two host calls; a call is taken to be short against
\* the millisecond clock, so the clock does not advance inside one
ConcTick ==
    /\ pc = "idle"
    /\ now' = (now + 1) % ticks_period
    /\ last_op' = [op |-> "tick", val |-> TRUE]
    /\ snap' = NoSnap
    /\ irqs' = <<>>
    /\ poll_time' = 0
    /\ UNCHANGED <<config, peripherals,
                   decoded, decoder, irq_handler, history, offered, pc,
                   caller, complete_true>>

\* A decoder of ConcTaps pulses with the first small configuration
ConcInit ==
    /\ \E c \in {[d |-> 1, s |-> 2, l |-> 3, T |-> 3]} :
          /\ debounce_time_ms = c.d
          /\ short_tap_max_delay_ms = c.s
          /\ long_tap_min_delay_ms = c.l
          /\ sequence_timeout_ms = c.T
    /\ total_taps_to_expect = ConcTaps
    /\ ticks_period = 2 * HalfPeriod
    /\ now = 0
    /\ InitDecoder
    /\ InitPeripherals

ConcNext ==
    \/ Preempt
    \/ ConcTick
    \/ Line201
    \/ Line202
    \/ Line203
    \/ Line204
    \/ Line135
    \/ Line137
    \/ Line138
    \/ Line149
    \/ Line151
    \/ Line152
    \/ Line165

ConcSpec == ConcInit /\ [][ConcNext]_vars

\* The two methods as functions of the decoder fields d: what each does
\* when it runs from its first statement to its last without the other

SequenceOf(d) ==
    [seq |-> d.seq, lstt |-> d.lstt, ready |-> d.ready, count |-> d.count]

\* _handle_tap_interrupt (lines 61-118) at ticks_ms() = t
Ingested(d, t) ==
    IF TicksDiff(t, d.ltt, ticks_period) > debounce_time_ms
    THEN LET st == CountAndClassify(IF d.ready THEN ResetState
                                    ELSE SequenceOf(d), t)
         IN  Fields(TRUE, t, st.seq, t, st.ready, st.count)
    ELSE d

\* check_for_timeout (lines 135-142) at ticks_ms() = t: the fields it leaves
\* and the value it returns
Polled(d, t) ==
    IF /\ d.count > 0
       /\ ~d.ready
       /\ TicksDiff(t, d.lstt, ticks_period) > sequence_timeout_ms
    THEN [d |-> Fields(d.flag, d.ltt, ResetState.seq, ResetState.lstt,
                       ResetState.ready, ResetState.count),
          ret |-> TRUE]
    ELSE [d |-> d, ret |-> FALSE]

---------------------------------------------------------------------------
\* binary_sequence_to_integer(binary_str) called by the host loop with an
\* argument (line 258), in the decoder states that pulses and the clock
\* produce

\* the strings of n symbols '.' and '-'
BitStrings(n) == [1 .. n -> {".", "-"}]

\* the arguments explored for a decoder of n pulses: every string of '.' and
\* '-' of the expected length n-1 and of length n-2, one of length n, and
\* one of the expected length made of another character
DecodeArgs(n) ==
    BitStrings(n - 1) \cup BitStrings(n - 2)
        \cup {[i \in 1 .. n |-> "."], [i \in 1 .. n - 1 |-> "x"]}

\* the first call with an argument of the expected length is remembered
\* when it is made before any pulse has been accepted
Remembered(b, r) ==
    IF /\ decoded.none
       /\ Len(b) = total_taps_to_expect - 1
       /\ ~tap_detected_flag
    THEN [none |-> FALSE, arg |-> b, val |-> r]
    ELSE decoded

\* variant: the expected length follows the pulses counted so far
BinarySequenceToIntegerOfCounted ==
    /\ pc = "idle"
    /\ \E b \in DecodeArgs(total_taps_to_expect) :
          LET r == BinarySequenceToInteger(b, current_tap_count)
          IN  /\ last_op' = [op |-> "binary_sequence_to_integer",
                             arg |-> b, val |-> r, raised |-> FALSE]
              /\ decoded' = Remembered(b, r)
    /\ UNCHANGED <<config, peripherals,
                   decoder, irq_handler, now, history, offered,
                   host>>

\* lines 175-195 with binary_str = b; every path of the method returns,
\* none raises (the ValueError of line 192 is caught at line 193)
BinarySequenceToIntegerOf ==
    /\ pc = "idle"
    /\ \E b \in DecodeArgs(total_taps_to_expect) :
          LET r == BinarySequenceToInteger(b, total_taps_to_expect)
          IN  /\ last_op' = [op |-> "binary_sequence_to_integer",
                             arg |-> b, val |-> r, raised |-> FALSE]
              /\ decoded' = Remembered(b, r)
    /\ UNCHANGED <<config, peripherals,
                   decoder, irq_handler, now, history, offered,
                   host>>

\* A decoder with the first small configuration
DecodeInit ==
    /\ \E c \in {[d |-> 1, s |-> 2, l |-> 3, T |-> 3]} :
          /\ debounce_time_ms = c.d
          /\ short_tap_max_delay_ms = c.s
          /\ long_tap_min_delay_ms = c.l
          /\ sequence_timeout_ms = c.T
    /\ total_taps_to_expect \in 2 .. MaxTaps
    /\ ticks_period = 2 * HalfPeriod
    /\ now = 0
    /\ InitDecoder
    /\ InitPeripherals

DecodeNext ==
    \/ Preempt
    \/ ConcTick
    \/ BinarySequenceToIntegerOf

DecodeSpec == DecodeInit /\ [][DecodeNext]_vars

---------------------------------------------------------------------------
\* __init__ called with any arguments (lines 28-46): the constructor stores
\* its arguments as they are and registers the handler; it tests nothing

\* argument values explored, valid and not: debounce, short_tap_max,
\* long_tap_min, sequence_timeout and total_taps_to_expect
AnyArguments ==
    [d : {-1, 0, 1}, s : {0, 2}, l : {0, 3}, T : {-1, 3}, n : {0, 1, 2}]

ConstructInit ==
    /\ \E c \in AnyArguments :
          /\ debounce_time_ms = c.d
          /\ short_tap_max_delay_ms = c.s
          /\ long_tap_min_delay_ms = c.l
          /\ sequence_timeout_ms = c.T
          /\ total_taps_to_expect = c.n
    /\ ticks_period = 2 * HalfPeriod
    /\ now = 0
    /\ InitDecoder
    /\ InitPeripherals

ConstructNext ==
    \/ Preempt
    \/ ConcTick
    \/ Deactivate

ConstructSpec == ConstructInit /\ [][ConstructNext]_vars

---------------------------------------------------------------------------
\* Every method of the decoder called by the host loop, each as one step

\* A decoder with the first small configuration
FullInit ==
    /\ \E c \in {[d |-> 1, s |-> 2, l |-> 3, T |-> 3]} :
          /\ debounce_time_ms = c.d
          /\ short_tap_max_delay_ms = c.s
          /\ long_tap_min_delay_ms = c.l
          /\ sequence_timeout_ms = c.T
    /\ total_taps_to_expect \in 2 .. MaxTaps
    /\ ticks_period = 2 * HalfPeriod
    /\ now = 0
    /\ InitDecoder
    /\ InitPeripherals

FullNext ==
    \/ HandleTapInterrupt
    \/ IsTapDetected
    \/ CheckForTimeout
    \/ IsSequenceComplete
    \/ ResetSequence
    \/ Deactivate
    \/ Tick

FullSpec == FullInit /\ [][FullNext]_vars

---------------------------------------------------------------------------
\* The loop of the example program (lines 252-272): check_for_timeout,
\* is_sequence_complete with the processing of a complete code, sleep; then
\* again.  pc = "idle" is the top of the loop.  The pulse source delivers at
\* most MaxPulses pulses.  The sleep of line 272 is one step of the clock.

\* pulses the source delivers before it falls silent
MaxPulses == 3

\* line 254
Loop254 ==
    /\ pc = "idle"
    /\ IF TimeoutDue(now)
       THEN /\ ResetSequenceFields
            /\ last_op' = BoolResult("check_for_timeout", TRUE)
       ELSE /\ UNCHANGED <<sequence_state, history>>
            /\ last_op' = BoolResult("check_for_timeout", FALSE)
    /\ pc' = "line256"
    /\ UNCHANGED <<config, peripherals,
                   decoded, tap_detected_flag, last_tap_time,
                   irq_handler, now, offered, caller, poll_time, snap, irqs,
                   complete_true>>

\* lines 256-269: a complete code is read, decoded and followed by
\* reset_sequence (line 269); a malformed one is reset by
\* is_sequence_complete itself (line 157)
Loop256 ==
    /\ pc = "line256"
    /\ IF full_sequence_ready
       THEN /\ ResetSequenceFields
            /\ last_op' = BoolResult("is_sequence_complete",
                                     HasExpectedLength)
       ELSE /\ UNCHANGED <<sequence_state, history>>
            /\ last_op' = BoolResult("is_sequence_complete", FALSE)
    /\ pc' = "line272"
    /\ UNCHANGED <<config, peripherals,
                   decoded, tap_detected_flag, last_tap_time,
                   irq_handler, now, offered, caller, poll_time, snap, irqs,
                   complete_true>>

\* line 272: time.sleep_ms
Loop272 ==
    /\ pc = "line272"
    /\ now' = (now + 1) % ticks_period
    /\ last_op' = [op |-> "tick", val |-> TRUE]
    /\ pc' = "idle"
    /\ UNCHANGED <<config, peripherals,
                   decoded, decoder, irq_handler, history, offered,
                   caller, poll_time, snap, irqs, complete_true>>

\* a pulse of the source, at any point of the loop
LoopPulse ==
    /\ irq_handler
    /\ offered < MaxPulses
    /\ HandleTapInterruptAt(now)
    /\ offered' = offered + 1
    /\ UNCHANGED <<config, peripherals, decoded, irq_handler, now, host>>

LoopInit ==
    /\ \E c \in {[d |-> 1, s |-> 2, l |-> 3, T |-> 3]} :
          /\ debounce_time_ms = c.d
          /\ short_tap_max_delay_ms = c.s
          /\ long_tap_min_delay_ms = c.l
          /\ sequence_timeout_ms = c.T
    /\ total_taps_to_expect \in 2 .. MaxTaps
    /\ ticks_period = 2 * HalfPeriod
    /\ now = 0
    /\ InitDecoder
    /\ InitPeripherals

LoopNext ==
    \/ Loop254
    \/ Loop256
    \/ Loop272
    \/ LoopPulse

\* the loop has no blocking call: each of its statements is taken when it
\* is the next one; nothing is assumed of the pulse source
LoopSpec ==
    /\ LoopInit
    /\ [][LoopNext]_vars
    /\ WF_vars(Loop254)
    /\ WF_vars(Loop256)
    /\ WF_vars(Loop272)

---------------------------------------------------------------------------
\* The collaborators, each next to a decoder that is not driven

\* a decoder of seven pulses with the configuration of the example
\* (tapDetector.py:235-243)
ExampleDecoder ==
    /\ debounce_time_ms = 50
    /\ short_tap_max_delay_ms = 300
    /\ long_tap_min_delay_ms = 301
    /\ total_taps_to_expect = 7
    /\ sequence_timeout_ms = 2000
    /\ ticks_period = 2 ^ 30
    /\ now = 0
    /\ InitDecoder

\* A generator constructed with a valid key and a valid time step
TotpInit ==
    /\ ExampleDecoder
    /\ \E key \in SecretKeys, step \in TimeSteps : InitTotp(key, step)
    /\ InitRtc
    /\ InitHandler(0, 0, NOTSET, "a", <<>>)

\* the generator called at any time of the clock
TotpNext == GeneratePassword

TotpSpec == TotpInit /\ [][TotpNext]_vars

\* the encoder called with any value, and the decoder called with what the
\* encoder returned
EncodeNext ==
    \/ IntegerToCustomBinaryString
    \/ BinarySequenceToIntegerOfCustom

EncodeSpec == TotpInit /\ [][EncodeNext]_vars

\* A clock driver on a chip that was never set
RtcInit ==
    /\ ExampleDecoder
    /\ InitTotp(123456789, 60)
    /\ InitRtc
    /\ InitHandler(0, 0, NOTSET, "a", <<>>)

RtcNext ==
    \/ SetTime
    \/ GetTime
    \/ Dec2BcdOf
    \/ Bcd2DecOf

RtcSpec == RtcInit /\ [][RtcNext]_vars

\* A handler constructed with arguments that __init__ accepts, in a
\* directory whose backups, if any, are among those the handler keeps
LogInit ==
    /\ ExampleDecoder
    /\ InitTotp(123456789, 60)
    /\ InitRtc
    /\ \E a \in HandlerArguments, fs \in EarlierFiles :
          /\ DOMAIN fs \subseteq 0 .. a.k
          /\ InitHandler(a.mb, a.k, a.lv, a.m, fs)

LogNext == Emit

LogSpec == LogInit /\ [][LogNext]_vars

---------------------------------------------------------------------------
\* Properties

\* the expected bit of a gap under the rule "gap <= short_max is short"
BitOfGap(gap) == IF gap <= short_tap_max_delay_ms THEN "." ELSE "-"

\* the distance of the clock to the last pulse that passed debounce
SinceLastAccepted == TicksDiff(now, last_accepted, ticks_period)

PulseStep == last_op'.op = "irq"

PulseAccepted == last_op'.op = "irq" /\ last_op'.val # "rejected"

PollStep == last_op'.op = "check_for_timeout"

\* C1: from a fresh or reset decoder, the N-th pulse that passes debounce
\* (no reset_sequence in between) sets the completion flag with N-1 bits; the
\* flag stays until the completion check, which then returns True, and the
\* code read right after it has N-1 bits.
C1_Step ==
    /\ (PulseAccepted /\ accepted' = total_taps_to_expect)
         => /\ full_sequence_ready'
            /\ Len(current_binary_sequence') = total_taps_to_expect - 1
    /\ ( /\ accepted = total_taps_to_expect
         /\ full_sequence_ready
         /\ \/ last_op'.op \in {"tick", "check_for_timeout",
                                "get_binary_sequence"}
            \/ last_op'.op = "irq" /\ last_op'.val = "rejected" )
         => /\ full_sequence_ready'
            /\ accepted' = total_taps_to_expect
    /\ ( /\ accepted = total_taps_to_expect
         /\ full_sequence_ready
         /\ last_op'.op = "is_sequence_complete" )
         => /\ last_op'.val = TRUE
            /\ Len(current_binary_sequence') = total_taps_to_expect - 1
    /\ ( /\ last_op.op = "is_sequence_complete"
         /\ last_op.val = TRUE
         /\ last_op'.op = "get_binary_sequence" )
         => Len(last_op'.val) = total_taps_to_expect - 1

C3_ScenarioDecodesTo20 ==
    offered = Len(ScenarioPulses)
      => /\ current_tap_count = 7
         /\ current_binary_sequence = <<".", "-", ".", "-", ".", ".">>
         /\ BinarySequenceToInteger(current_binary_sequence,
                                    total_taps_to_expect) = IntValue(20)

\* C4: a pulse closer than debounce_time_ms to the last accepted pulse changes
\* no field of the decoder.
C4_Step ==
    ( /\ PulseStep
      /\ last_accepted # -1
      /\ SinceLastAccepted < debounce_time_ms )
      => /\ last_op'.val = "rejected"
         /\ UNCHANGED decoder

C4_DebouncedPulseChangesNothing == [][C4_Step]_vars

C4_Witness ==
    /\ last_op.op = "irq"
    /\ last_op.val = "rejected"
    /\ last_accepted # -1
    /\ current_tap_count >= 1
    /\ SinceLastAccepted >= 0
    /\ SinceLastAccepted < debounce_time_ms

\* C5: a pulse at a distance >= debounce_time_ms (equality included) from the
\* last accepted pulse is accepted: the flag is set and last_tap_time is its
\* timestamp.
C5_Step ==
    ( /\ PulseStep
      /\ last_accepted # -1
      /\ SinceLastAccepted >= debounce_time_ms )
      => /\ last_op'.val # "rejected"
         /\ tap_detected_flag'
         /\ last_tap_time' = now

C5_AcceptedFromDebounceOn == [][C5_Step]_vars

\* C6: the first pulse after construction is accepted whatever the clock
\* shows: no pulse is rejected before one has been accepted.
C6_FirstPulseAccepted ==
    ~ ( /\ last_op.op = "irq"
        /\ last_op.val = "rejected"
        /\ last_accepted = -1 )

\* C7 as stated: in every configuration a gap equal to short_tap_max_delay_ms
\* gives "." and a gap equal to long_tap_min_delay_ms gives "-".
C7_BoundariesAsStated ==
    \A i \in 1 .. Len(gaps) :
        /\ i <= Len(current_binary_sequence)
        /\ gaps[i] = short_tap_max_delay_ms
             => current_binary_sequence[i] = "."
        /\ gaps[i] = long_tap_min_delay_ms
             => current_binary_sequence[i] = "-"

\* C7 amended: a gap equal to short_tap_max_delay_ms gives "."; a gap equal to
\* long_tap_min_delay_ms gives "-" when long_tap_min_delay_ms is above
\* short_tap_max_delay_ms, and "." when it is not; the final pulse alike.
C7_BoundariesAmended ==
    \A i \in 1 .. Len(gaps) :
        /\ i <= Len(current_binary_sequence)
        /\ gaps[i] = short_tap_max_delay_ms
             => current_binary_sequence[i] = "."
        /\ gaps[i] = long_tap_min_delay_ms
             => current_binary_sequence[i] =
                  (IF long_tap_min_delay_ms > short_tap_max_delay_ms
                   THEN "-" ELSE ".")

C7_Witness ==
    /\ full_sequence_ready
    /\ long_tap_min_delay_ms > short_tap_max_delay_ms
    /\ Len(gaps) >= 2
    /\ gaps[1] = long_tap_min_delay_ms
    /\ gaps[Len(gaps)] = short_tap_max_delay_ms

\* C8: with 1 <= current_tap_count <= N-1 and more than sequence_timeout_ms
\* since the last accepted pulse, check_for_timeout empties the sequence, sets
\* the count to 0 and returns True; the call right after it returns False.
C8_Step ==
    /\ ( /\ PollStep
         /\ current_tap_count >= 1
         /\ current_tap_count <= total_taps_to_expect - 1
         /\ last_accepted # -1
         /\ SinceLastAccepted > sequence_timeout_ms )
         => /\ last_op'.val = TRUE
            /\ current_tap_count' = 0
            /\ current_binary_sequence' = <<>>
    /\ ( /\ PollStep
         /\ last_op.op = "check_for_timeout"
         /\ last_op.val = TRUE )
         => last_op'.val = FALSE

C8_TimeoutResets == [][C8_Step]_vars

C8_Witness ==
    /\ last_op.op = "check_for_timeout"
    /\ last_op.val = TRUE
    /\ current_tap_count = 0
    /\ current_binary_sequence = <<>>
    /\ SinceLastAccepted > sequence_timeout_ms

\* C9: check_for_timeout returns False and changes no field when the count is
\* 0, or the completion flag is set, or the idle time is at most
\* sequence_timeout_ms.
C9_Step ==
    ( /\ PollStep
      /\ \/ current_tap_count = 0
         \/ full_sequence_ready
         \/ last_accepted # -1 /\ SinceLastAccepted <= sequence_timeout_ms )
      => /\ last_op'.val = FALSE
         /\ UNCHANGED decoder

C9_NoTimeoutChangesNothing == [][C9_Step]_vars

C9_Witness ==
    /\ last_op.op = "check_for_timeout"
    /\ last_op.val = FALSE
    /\ current_tap_count > 0
    /\ ~full_sequence_ready
    /\ SinceLastAccepted = sequence_timeout_ms

\* C10: a pulse accepted while the completion flag is set starts a new
\* sequence: count 1, empty code, flag clear.
C10_Step ==
    (PulseAccepted /\ full_sequence_ready)
      => /\ current_tap_count' = 1
         /\ current_binary_sequence' = <<>>
         /\ ~full_sequence_ready'

C10_PulseAfterCompletionRestarts == [][C10_Step]_vars

C10_Witness ==
    /\ last_op.op = "irq"
    /\ last_op.val = "restarted"
    /\ current_tap_count = 1
    /\ current_binary_sequence = <<>>
    /\ ~full_sequence_ready

\* the length the code has while no sequence is complete
ExpectedPartialLength ==
    IF current_tap_count >= 1 THEN current_tap_count - 1 ELSE 0

CompleteStep == last_op'.op = "is_sequence_complete"

ReadStep == last_op'.op = "get_binary_sequence"

\* C11: in every reachable state 0 <= current_tap_count <= N.
C11_CountWithinExpected ==
    /\ current_tap_count >= 0
    /\ current_tap_count <= total_taps_to_expect

\* C12: while the completion flag is clear the code has
\* max(0, current_tap_count - 1) bits.
C12_PartialLengthFollowsCount ==
    ~full_sequence_ready
      => Len(current_binary_sequence) = ExpectedPartialLength

\* C13: the completion flag set implies a code of N-1 bits.
C13_CompleteHasAllBits ==
    full_sequence_ready
      => Len(current_binary_sequence) = total_taps_to_expect - 1

C13_Witness ==
    /\ full_sequence_ready
    /\ total_taps_to_expect >= 3
    /\ current_tap_count = total_taps_to_expect
    /\ Len(current_binary_sequence) = total_taps_to_expect - 1

\* C14: the first pulse ingested after a reset_sequence is accepted and is
\* pulse #1, however close it is to the last accepted pulse.  (accepted = 0
\* with last_accepted set: a reset has run since the last accepted pulse.)
C14_Step ==
    ( /\ PulseStep
      /\ accepted = 0
      /\ last_accepted # -1 )
      => /\ last_op'.val # "rejected"
         /\ current_tap_count' = 1

C14_PulseAfterResetAccepted == [][C14_Step]_vars

\* C19 as stated: reading the code (get_binary_sequence) of a complete
\* sequence returns its N-1 bits and clears the completion flag, and a second
\* read right after it does not return the code again.
C19_ReadStepAsStated ==
    /\ (ReadStep /\ full_sequence_ready)
         => /\ Len(last_op'.val) = total_taps_to_expect - 1
            /\ ~full_sequence_ready'
    /\ (ReadStep /\ last_op.op = "get_binary_sequence")
         => last_op'.val # last_op.val

C19_ReadIsOneShot == [][C19_ReadStepAsStated]_vars

\* C19 amended: the one-shot consumption is the completion check.  On a
\* complete sequence is_sequence_complete returns True, clears the flag and
\* keeps the code; get_binary_sequence then returns the N-1 bits and changes
\* no field; is_sequence_complete with the flag clear returns False.
C19_StepAmended ==
    /\ (CompleteStep /\ full_sequence_ready /\ HasExpectedLength)
         => /\ last_op'.val = TRUE
            /\ ~full_sequence_ready'
            /\ current_binary_sequence' = current_binary_sequence
    /\ ( /\ ReadStep
         /\ last_op.op = "is_sequence_complete"
         /\ last_op.val = TRUE )
         => /\ last_op'.val = current_binary_sequence
            /\ Len(last_op'.val) = total_taps_to_expect - 1
            /\ UNCHANGED decoder
    /\ (CompleteStep /\ ~full_sequence_ready)
         => last_op'.val = FALSE

C19_ConsumptionIsOneShot == [][C19_StepAmended]_vars

C19_Witness ==
    /\ last_op.op = "get_binary_sequence"
    /\ accepted = total_taps_to_expect
    /\ ~full_sequence_ready
    /\ Len(last_op.val) = total_taps_to_expect - 1

\* C20 as stated: is_sequence_complete returns True iff the flag is set and
\* the code has N-1 bits, changes no state when it does, and two calls in a
\* row return the same value.
C20_StepAsStated ==
    CompleteStep
      => /\ last_op'.val = (full_sequence_ready /\ HasExpectedLength)
         /\ last_op'.val = TRUE => UNCHANGED decoder
         /\ last_op.op = "is_sequence_complete"
              => last_op'.val = last_op.val

C20_CompleteCheckIsPure == [][C20_StepAsStated]_vars

\* C20 amended: is_sequence_complete returns True iff the flag is set and the
\* code has N-1 bits; when it returns True it clears the flag and changes
\* nothing else, so a call right after it returns False; with the flag clear
\* it returns False and changes no field.
C20_StepAmended ==
    CompleteStep
      => /\ last_op'.val = (full_sequence_ready /\ HasExpectedLength)
         /\ last_op'.val = TRUE
              => /\ ~full_sequence_ready'
                 /\ UNCHANGED <<tap_detected_flag, last_tap_time,
                                current_binary_sequence,
                                last_sequence_tap_time, current_tap_count>>
         /\ ~full_sequence_ready => UNCHANGED decoder
         /\ (last_op.op = "is_sequence_complete" /\ last_op.val = TRUE)
              => last_op'.val = FALSE

C20_CompleteCheckClearsFlag == [][C20_StepAmended]_vars

C20_Witness ==
    /\ last_op.op = "is_sequence_complete"
    /\ last_op.val = FALSE
    /\ accepted = total_taps_to_expect
    /\ current_tap_count = total_taps_to_expect
    /\ ~full_sequence_ready

---------------------------------------------------------------------------
\* The host loop preempted by the handler (ConcSpec)

\* a host call has just returned
Returned(name) == pc = "idle" /\ last_op.op = name

\* C15: when the handler may run between any two statements of
\* reset_sequence, the count and the code are still reset together: when
\* reset_sequence returns, a count of 0 comes with an empty code, and an
\* incomplete sequence has max(0, count - 1) bits.
C15_ResetTogether ==
    Returned("reset_sequence")
      => /\ current_tap_count = 0 => current_binary_sequence = <<>>
         /\ ~full_sequence_ready
              => Len(current_binary_sequence) = ExpectedPartialLength

\* C16: when the handler runs once while check_for_timeout executes, the
\* fields and the returned value are those of the two running one after the
\* other, in one of the two orders; a pulse accepted after the timeout
\* condition was evaluated is not erased by the reset.
C16_PollAndPulseInSomeOrder ==
    (Returned("check_for_timeout") /\ Len(irqs) = 1)
      => LET t == irqs[1]
             pollFirst == Polled(snap, poll_time)
             pollLast == Polled(Ingested(snap, t), poll_time)
         IN  \/ /\ CurrentFields = Ingested(pollFirst.d, t)
                /\ last_op.val = pollFirst.ret
             \/ /\ CurrentFields = pollLast.d
                /\ last_op.val = pollLast.ret

\* C17: when is_sequence_complete has returned True, the code the host loop
\* reads next with get_binary_sequence has exactly N-1 bits, also when the
\* handler ran during is_sequence_complete or between it and the read.
C17_ReadAfterCompleteHasAllBits ==
    (last_op.op = "get_binary_sequence" /\ last_op.after_complete)
      => Len(last_op.val) = total_taps_to_expect - 1

\* C18: called with the completion flag set and a code that has not N-1 bits,
\* is_sequence_complete returns False and leaves the count 0, the code empty
\* and the flag clear.
C18_MalformedIsReset ==
    (/\ Returned("is_sequence_complete")
     /\ irqs = <<>>
     /\ snap.ready
     /\ Len(snap.seq) # total_taps_to_expect - 1)
      => /\ last_op.val = FALSE
         /\ current_tap_count = 0
         /\ current_binary_sequence = <<>>
         /\ ~full_sequence_ready

C18_Witness ==
    /\ Returned("is_sequence_complete")
    /\ irqs = <<>>
    /\ snap.ready
    /\ Len(snap.seq) # total_taps_to_expect - 1
    /\ last_op.val = FALSE
    /\ current_tap_count = 0
    /\ current_binary_sequence = <<>>
    /\ ~full_sequence_ready

---------------------------------------------------------------------------
\* binary_sequence_to_integer (DecodeSpec)

\* the sum of b[i] * 2^(Len(b) - i) from position i on, '-' counting 1
RECURSIVE BigEndianSum(_, _)
BigEndianSum(b, i) ==
    IF i > Len(b) THEN 0
    ELSE (IF b[i] = "-" THEN 2 ^ (Len(b) - i) ELSE 0) + BigEndianSum(b, i + 1)

\* the last call was binary_sequence_to_integer with an argument
Decoded == last_op.op = "binary_sequence_to_integer"

DecodeStep == last_op'.op = "binary_sequence_to_integer"

\* C21: for every sequence b of N-1 symbols '.' and '-',
\* binary_sequence_to_integer(b) is the big-endian value of b: the first
\* symbol is the most significant bit, '.' is 0 and '-' is 1.
C21_DecodeIsBigEndian ==
    (Decoded /\ last_op.arg \in BitStrings(total_taps_to_expect - 1))
      => last_op.val = IntValue(BigEndianSum(last_op.arg, 1))

C21_Witness ==
    /\ Decoded
    /\ total_taps_to_expect = 3
    /\ last_op.arg = <<"-", ".">>
    /\ last_op.val = IntValue(2)

\* C22 as stated: called with a sequence whose length is not N-1,
\* binary_sequence_to_integer raises an error instead of returning, and the
\* decoder fields are unchanged.
C22_StepAsStated ==
    (DecodeStep /\ Len(last_op'.arg) # total_taps_to_expect - 1)
      => /\ last_op'.raised
         /\ UNCHANGED decoder

C22_WrongLengthRaises == [][C22_StepAsStated]_vars

\* C22 amended: called with a sequence whose length is not N-1,
\* binary_sequence_to_integer raises nothing: it returns None (after printing
\* an error message), and the decoder fields and the configuration are
\* unchanged.
C22_StepAmended ==
    (DecodeStep /\ Len(last_op'.arg) # total_taps_to_expect - 1)
      => /\ ~last_op'.raised
         /\ last_op'.val = NoneValue
         /\ UNCHANGED <<decoder, config>>

C22_WrongLengthReturnsNone == [][C22_StepAmended]_vars

C22_Witness ==
    /\ Decoded
    /\ Len(last_op.arg) = total_taps_to_expect
    /\ last_op.val = NoneValue
    /\ current_tap_count >= 1

\* C23: for sequences of N-1 symbols, the result depends on the argument
\* only (a sequence decoded before the first pulse and again in any later
\* decoder state gives the same integer), and two different sequences never
\* decode to the same integer.
C23_DecodePureAndInjective ==
    Decoded
      => /\ (~decoded.none /\ last_op.arg = decoded.arg)
              => last_op.val = decoded.val
         /\ last_op.arg \in BitStrings(total_taps_to_expect - 1)
              => \A b \in BitStrings(total_taps_to_expect - 1) :
                    BinarySequenceToInteger(b, total_taps_to_expect)
                      = last_op.val
                    => b = last_op.arg

C23_Witness ==
    /\ Decoded
    /\ ~decoded.none
    /\ last_op.arg = decoded.arg
    /\ last_op.val = decoded.val
    /\ tap_detected_flag
    /\ current_tap_count = total_taps_to_expect

---------------------------------------------------------------------------
\* Construction (ConstructSpec)

\* C24: construction fails, and no decoder is attached to the pin, when
\* total_taps_to_expect < 2 or one of the four durations is not positive.
C24_InvalidConfigurationRejected ==
    (\/ total_taps_to_expect < 2
     \/ debounce_time_ms <= 0
     \/ short_tap_max_delay_ms <= 0
     \/ long_tap_min_delay_ms <= 0
     \/ sequence_timeout_ms <= 0)
      => ~(last_op.op = "init" /\ irq_handler)

---------------------------------------------------------------------------
\* The new-pulse flag, reset_sequence and deactivate (FullSpec)

FlagReadStep == last_op'.op = "is_tap_detected"

ResetStep == last_op'.op = "reset_sequence"

\* C25: the new-pulse flag is set by every pulse that passes the debounce,
\* whatever the state of the sequence, and is left as it is by a rejected
\* pulse; no other step sets it; is_tap_detected returns it and clears it,
\* so a second read with no accepted pulse in between returns False.
C25_Step ==
    /\ PulseStep
         => IF last_op'.val = "rejected"
            THEN UNCHANGED tap_detected_flag
            ELSE tap_detected_flag'
    /\ FlagReadStep
         => /\ last_op'.val = tap_detected_flag
            /\ ~tap_detected_flag'
            /\ UNCHANGED <<last_tap_time, sequence_state>>
    /\ (FlagReadStep /\ last_op.op = "is_tap_detected")
         => last_op'.val = FALSE
    /\ ~PulseStep => (tap_detected_flag' => tap_detected_flag)

C25_FlagIsOneShot == [][C25_Step]_vars

C25_Witness ==
    /\ last_op.op = "is_tap_detected"
    /\ last_op.val = TRUE
    /\ current_tap_count > total_taps_to_expect
    /\ ~tap_detected_flag

\* C26: reset_sequence, from any state, leaves the code empty, the count 0
\* and the completion flag clear, leaves the new-pulse flag and the
\* configuration unchanged, and a second reset_sequence changes nothing.
C26_Step ==
    ResetStep
      => /\ current_binary_sequence' = <<>>
         /\ current_tap_count' = 0
         /\ ~full_sequence_ready'
         /\ UNCHANGED <<tap_detected_flag, config>>
         /\ last_op.op = "reset_sequence" => UNCHANGED decoder

C26_ResetClearsSequence == [][C26_Step]_vars

C26_Witness ==
    /\ last_op.op = "reset_sequence"
    /\ last_accepted # -1
    /\ last_tap_time # 0
    /\ ~tap_detected_flag
    /\ current_tap_count = 0

\* C27: when deactivate has returned, the sequence in progress has been
\* discarded: the count is 0, the code empty and the completion flag clear.
C27_DeactivateDiscards ==
    last_op.op = "deactivate"
      => /\ current_tap_count = 0
         /\ current_binary_sequence = <<>>
         /\ ~full_sequence_ready

---------------------------------------------------------------------------
\* Pulses after consumption and after the timeout (Spec)

\* C28: when a complete code has been consumed without a reset (the flag is
\* clear and the count is N), the next accepted pulse resets the decoder and
\* is counted as pulse 1 of a new sequence.
C28_Step ==
    (/\ PulseAccepted
     /\ ~full_sequence_ready
     /\ current_tap_count = total_taps_to_expect)
      => /\ current_tap_count' = 1
         /\ current_binary_sequence' = <<>>

C28_PulseAfterConsumptionRestarts == [][C28_Step]_vars

\* C30: an accepted pulse that arrives more than sequence_timeout after the
\* last pulse of a sequence in progress does not extend that sequence: no
\* bit is appended from its gap, also when check_for_timeout has not run
\* in between.
C30_Step ==
    (/\ PulseAccepted
     /\ ~full_sequence_ready
     /\ current_tap_count >= 1
     /\ current_tap_count < total_taps_to_expect
     /\ IdleTooLong(now))
      => /\ current_tap_count' = 1
         /\ current_binary_sequence' = <<>>

C30_NoBitFromExpiredGap == [][C30_Step]_vars

---------------------------------------------------------------------------
\* The polling loop (LoopSpec)

\* C29: when a sequence is in progress (1 <= count <= N-1), no further pulse
\* arrives and the loop keeps calling check_for_timeout while time advances,
\* a call of check_for_timeout eventually reports the timeout and the count
\* is 0.
C29_AbandonedSequenceTimesOut ==
    (/\ offered = MaxPulses
     /\ current_tap_count >= 1
     /\ current_tap_count <= total_taps_to_expect - 1
     /\ ~full_sequence_ready)
      ~> (/\ last_op = BoolResult("check_for_timeout", TRUE)
          /\ current_tap_count = 0)

C29_Witness ==
    /\ offered = MaxPulses
    /\ last_op = BoolResult("check_for_timeout", TRUE)
    /\ current_tap_count = 0
    /\ last_accepted # -1

---------------------------------------------------------------------------
\* Properties of the password generator, the clock driver and the handler

Encoded == last_op.op = "integer_to_custom_binary_string"

\* C31: for every v in 0..63 integer_to_custom_binary_string(v) is the
\* 6-symbol big-endian encoding of v ('.' = 0, '-' = 1) and the decoder of
\* seven pulses maps it back to v; for v outside 0..63 it raises ValueError.
C31_EncodeDecodeRoundTrip ==
    /\ Encoded =>
          IF last_op.arg \in 0 .. 63
          THEN /\ ~last_op.raised
               /\ Len(last_op.val) = 6
               /\ BigEndianSum(last_op.val, Len(last_op.val)) = last_op.arg
          ELSE last_op.raised
    /\ Decoded /\ last_op.value \in 0 .. 63 =>
          last_op.val = IntValue(last_op.value)

GenerateStep == last_op'.op = "generate_password"

\* C32: for every unix time >= 0, every valid key and every positive time
\* step, generate_password sets password to a value in 0..63 without
\* raising, and a call at a time of the same time step as the call before
\* leaves the same password and the same kode_ketuk.
C32_Step ==
    GenerateStep =>
        /\ ~last_op'.raised
        /\ password' \in 0 .. 63
        /\ password' = last_op'.val
        /\ (/\ last_op.op = "generate_password"
            /\ last_op.arg \div time_step_seconds
                  = last_op'.arg \div time_step_seconds)
           => /\ password' = password
              /\ kode_ketuk' = kode_ketuk

C33_WeekdayRoundTrip ==
    last_op.op = "get_time" /\ time_set # NoTime =>
        last_op.val.day_of_week = time_set.day_of_week

\* C35: for every dec in 0..99, _bcd2dec(_dec2bcd(dec)) = dec.
C35_BcdRoundTrip ==
    last_op.op = "_bcd2dec" /\ last_op.dec \in 0 .. 99 =>
        last_op.val = last_op.dec

EmitStep == last_op'.op = "emit" /\ maxBytes > 0 /\ backupCount >= 1

Rotated == last_op'.val

\* after the step the files are the active one and backups 1..backupCount
OnlyKeptBackups == Listdir(files') \subseteq 0 .. backupCount

\* the rotation made the active file backup 1 and every backup i backup
\* i + 1; the last backup is in no file any more
ShiftedByOne ==
    /\ \A i \in Listdir(files) :
          i < backupCount =>
              i + 1 \in Listdir(files') /\ files'[i + 1] = files[i]
    /\ \A i \in Listdir(files') \ {0} : i - 1 \in Listdir(files)

\* C34 as stated: after any emit only the active file and backups 1..k
\* exist; a rotation makes the active file backup 1, shifts every backup i
\* to i + 1 dropping the oldest, and the record that triggered the rotation
\* is written to the new active file.
C34_StepAsStated ==
    EmitStep =>
        /\ OnlyKeptBackups
        /\ Rotated =>
              /\ ShiftedByOne
              /\ files'[0] = <<last_op'.arg>>

C34_RotationKeepsTriggeringRecord == [][C34_StepAsStated]_vars

\* C34 amended: the record that triggered the rotation is written to the
\* new active file when its level is at least the handler's level;
\* otherwise the new active file is left empty.
C34_StepAmended ==
    EmitStep =>
        /\ OnlyKeptBackups
        /\ Rotated =>
              /\ ShiftedByOne
              /\ files'[0] = IF last_op'.arg.levelno >= level
                             THEN <<last_op'.arg>>
                             ELSE <<>>

C34_RotationKeepsAdmittedRecord == [][C34_StepAmended]_vars

\* a rotation with two backups kept, both present afterwards, the active
\* file holding the record that triggered it
C34_Witness ==
    /\ last_op.op = "emit"
    /\ last_op.val
    /\ backupCount = 2
    /\ Listdir(files) = {0, 1, 2}
    /\ files[0] = <<last_op.arg>>
    /\ files[2] # <<>>

====
